---- MODULE Spec2Model ----
(***************************************************************************)
(* Model of run_production.py: the record loader (load_companies), the     *)
(* batch submitter and result materializer (run_single_pipeline) and the   *)
(* run orchestrator (main).                                                *)
(*                                                                         *)
(* Strings whose characters matter (the Website column) are sequences of   *)
(* one-character strings.  Time is an integer number of seconds.           *)
(***************************************************************************)
EXTENDS Integers, Sequences, FiniteSets, TLC

(***************************************************************************)
(* Bounds of the model.                                                    *)
(***************************************************************************)
MaxTokens == 3      \* a Website is at most this many tokens long
MaxFileRows == 3    \* rows of an input file given to load_companies alone
MaxLimit == 4       \* largest `limit` given to load_companies
MaxRows == 102      \* rows of the largest input file of a whole run
MaxResults == 2     \* rows of the longest `results` sequence of the remote
MaxTick == 1        \* longest duration, in seconds, of one timed step
MaxRuns == 2        \* runs of the program against one output directory

(***************************************************************************)
(* Program constants.                                                      *)
(***************************************************************************)
AdvancedCap == 100     \* all_companies[:100]
PowerhouseCap == 10    \* all_companies[:10]

Modes == <<"core", "advanced", "powerhouse">>

(***************************************************************************)
(* Character strings.                                                      *)
(***************************************************************************)
Lower == <<"a","b","c","d","e","f","g","h","i","j","k","l","m",
           "n","o","p","q","r","s","t","u","v","w","x","y","z">>
Upper == <<"A","B","C","D","E","F","G","H","I","J","K","L","M",
           "N","O","P","Q","R","S","T","U","V","W","X","Y","Z">>

IsLower(c) == \E i \in 1..Len(Lower) : Lower[i] = c
IsUpper(c) == \E i \in 1..Len(Upper) : Upper[i] = c
IsCased(c) == IsLower(c) \/ IsUpper(c)
ToUpper(c) == IF IsLower(c) THEN Upper[CHOOSE i \in 1..Len(Lower) : Lower[i] = c] ELSE c
ToLower(c) == IF IsUpper(c) THEN Lower[CHOOSE i \in 1..Len(Upper) : Upper[i] = c] ELSE c

StartsWith(s, p) == Len(s) >= Len(p) /\ SubSeq(s, 1, Len(p)) = p
Drop(s, n) == SubSeq(s, n + 1, Len(s))

\* str.replace(old, ''): every non-overlapping occurrence of old, scanning
\* from the left, is removed (old is never empty here).
RECURSIVE Remove(_, _)
Remove(s, old) ==
    IF s = <<>> THEN <<>>
    ELSE IF StartsWith(s, old) THEN Remove(Drop(s, Len(old)), old)
    ELSE <<Head(s)>> \o Remove(Tail(s), old)

\* str.split(sep)[0] for a one-character sep: the text before the first sep.
RECURSIVE FirstSegment(_, _)
FirstSegment(s, sep) ==
    IF s = <<>> \/ Head(s) = sep THEN <<>>
    ELSE <<Head(s)>> \o FirstSegment(Tail(s), sep)

\* str.title(): a cased character is upper-cased when the character before
\* it is not cased (or there is none) and lower-cased otherwise.
Title(s) ==
    [i \in 1..Len(s) |->
        IF IsCased(s[i])
        THEN IF i > 1 /\ IsCased(s[i - 1]) THEN ToLower(s[i]) ELSE ToUpper(s[i])
        ELSE s[i]]

S_https == <<"h","t","t","p","s",":","/","/">>
S_http == <<"h","t","t","p",":","/","/">>
S_www == <<"w","w","w",".">>
S_example == <<"E","x","a","m","p","l","e",".","c","o","m","/","p","a","t","h">>

\* line 18: the companyName derived from a Website
CompanyName(website) ==
    Title(FirstSegment(Remove(Remove(Remove(website, S_https), S_http), S_www), "."))

(***************************************************************************)
(* load_companies.  A row is [Website, AccountOwner]; limit is             *)
(* [given |-> FALSE] for None and [given |-> TRUE, n |-> an integer].      *)
(***************************************************************************)
NoLimit == [given |-> FALSE, n |-> 0]
Limit(n) == [given |-> TRUE, n |-> n]

\* Python truth value of `limit`: None and 0 are false
Truthy(limit) == limit.given /\ limit.n # 0

Record(row) ==
    [companyName |-> CompanyName(row.Website),
     domain |-> row.Website,
     accountOwner |-> row.AccountOwner]

\* lines 14-16: the loop over enumerate(reader) ends at the first 0-based
\* index i that is past the last row or has `limit and i >= limit`
LoopEnds(rows, limit, i) == i >= Len(rows) \/ (Truthy(limit) /\ i >= limit.n)
LoopExit(rows, limit) ==
    CHOOSE i \in 0..Len(rows) :
        /\ LoopEnds(rows, limit, i)
        /\ \A j \in 0..(i - 1) : ~LoopEnds(rows, limit, j)

\* lines 17-24: one Record is appended for every row before the exit
load_companies(rows, limit) == [i \in 1..LoopExit(rows, limit) |-> Record(rows[i])]

(***************************************************************************)
(* The remote call.  What `curl` gives back is [rc, kind, rows]: rc is     *)
(* its exit code (7 cannot connect, 28 --max-time exceeded) and kind is    *)
(* the shape of the response body on stdout:                               *)
(*   "invalid"          not JSON                                            *)
(*   "number" "null" "bool"   a JSON scalar that is no container           *)
(*   "string" / "string_results"   a JSON string without / with the        *)
(*                      substring `results`                                 *)
(*   "array" / "array_results"     a JSON array without / with the         *)
(*                      element "results"                                   *)
(*   "object"           a JSON object with no `results` key                *)
(*   "results_number"   an object whose `results` is a number              *)
(*   "results_list"     an object whose `results` is the list `rows`       *)
(* A Result row is an ordered mapping: a sequence of <<key, value>>.       *)
(***************************************************************************)
Row_ba == << <<"b", "v1">>, <<"a", "v2">> >>
Row_a == << <<"a", "v3">> >>
Row_ac == << <<"a", "v4">>, <<"c", "v5">> >>
ResultRows == {Row_ba, Row_a, Row_ac}

SeqsUpTo(S, n) == UNION {[1..m -> S] : m \in 0..n}

Response(rc, kind, rows) == [rc |-> rc, kind |-> kind, rows |-> rows]

FailedCurls == {Response(rc, "invalid", <<>>) : rc \in {7, 28}}
BodiesWithoutResults ==
    {Response(0, kd, <<>>) :
        kd \in {"invalid", "number", "null", "bool", "string", "string_results",
                "array", "array_results", "object", "results_number"}}
BodiesWithResults == {Response(0, "results_list", rs) : rs \in SeqsUpTo(ResultRows, MaxResults)}

FullMenu == FailedCurls \cup BodiesWithoutResults \cup BodiesWithResults

\* a few responses of every kind of outcome
SmallMenu ==
    {Response(28, "invalid", <<>>), Response(0, "null", <<>>), Response(0, "object", <<>>),
     Response(0, "results_list", <<>>), Response(0, "results_list", <<Row_ba>>),
     Response(0, "results_list", <<Row_a, Row_ac>>)}

TinyMenu == {Response(28, "invalid", <<>>), Response(0, "results_list", <<Row_a>>)}

Keys(row) == [i \in 1..Len(row) |-> row[i][1]]
HasKey(row, key) == \E i \in 1..Len(row) : row[i][1] = key
\* dict.get(key, ''): the value under key, or the empty restval
Get(row, key) == IF HasKey(row, key) THEN row[CHOOSE i \in 1..Len(row) : row[i][1] = key][2] ELSE ""
InSeq(x, s) == \E i \in 1..Len(s) : s[i] = x

(***************************************************************************)
(* csv.DictWriter(f, fieldnames=results[0].keys()), lines 58-61.           *)
(***************************************************************************)
\* DictWriter._dict_to_list raises ValueError for a row with a key that is
\* not a field name (extrasaction defaults to 'raise')
HasExtraKey(row, fieldnames) == \E i \in 1..Len(row) : ~InSeq(row[i][1], fieldnames)

\* the cells of a row, in the order of the field names
DictToList(row, fieldnames) == [j \in 1..Len(fieldnames) |-> Get(row, fieldnames[j])]

\* RowsWritten for a writer that drops extra keys (extrasaction='ignore')
RowsWritten_ignore(results, fieldnames) == Len(results)

\* writerows: rows are written one by one; the first row with an extra key
\* raises, and the rows before it stay written
RowsWritten(results, fieldnames) ==
    IF \E i \in 1..Len(results) : HasExtraKey(results[i], fieldnames)
    THEN (CHOOSE i \in 1..Len(results) :
             /\ HasExtraKey(results[i], fieldnames)
             /\ \A j \in 1..(i - 1) : ~HasExtraKey(results[j], fieldnames)) - 1
    ELSE Len(results)

NoFile == [present |-> FALSE, header |-> <<>>, rows |-> <<>>]

FieldNames(results) == Keys(results[1])

WriteCsv(results) ==
    [present |-> TRUE,
     header |-> FieldNames(results),
     rows |-> [i \in 1..RowsWritten(results, FieldNames(results)) |->
                  DictToList(results[i], FieldNames(results))]]

(***************************************************************************)
(* Lines 48-73 as a function of curl's result: what run_single_pipeline    *)
(* returns or raises, and whether it writes the tabular file.              *)
(***************************************************************************)
Returns(results, write) == [raise |-> "", results |-> results, write |-> write]
Raises(exc, write) == [raise |-> exc, results |-> <<>>, write |-> write]

Outcome(r) ==
    IF r.rc # 0 THEN Returns(<<>>, FALSE)                         \* lines 71-73
    ELSE IF r.kind = "invalid" THEN Returns(<<>>, FALSE)          \* lines 68-70
    ELSE IF r.kind \in {"number", "null", "bool"}
        THEN Raises("TypeError", FALSE)                           \* line 51: `in` on a non-container
    ELSE IF r.kind \in {"string", "array", "object"}
        THEN Returns(<<>>, FALSE)                                 \* lines 65-67
    ELSE IF r.kind \in {"string_results", "array_results"}
        THEN Raises("TypeError", FALSE)                           \* line 52: data['results']
    ELSE IF r.kind = "results_number"
        THEN Raises("TypeError", FALSE)                           \* line 53: len(results)
    ELSE IF r.rows = <<>> THEN Returns(<<>>, FALSE)               \* line 57 false
    ELSE IF RowsWritten(r.rows, FieldNames(r.rows)) < Len(r.rows)
        THEN Raises("ValueError", TRUE)                           \* line 61
    ELSE Returns(r.rows, TRUE)                                    \* line 64

\* CsvAfter for a call that removes the file when it has nothing to write
CsvAfter_remove(old, r) == IF Outcome(r).write THEN WriteCsv(r.rows) ELSE NoFile

\* lines 56-62: the tabular file after the call, given the file before it
CsvAfter(old, r) == IF Outcome(r).write THEN WriteCsv(r.rows) ELSE old

(***************************************************************************)
(* Temporary payload files.  A file is absent, empty (just truncated by    *)
(* open(..., 'w')), holds one JSON document, or is torn: a shorter         *)
(* document written over the start of a longer one.                        *)
(***************************************************************************)
NoDoc == [pipeline |-> "", companies |-> <<>>]
AbsentFile == [kind |-> "absent", doc |-> NoDoc, len |-> 0]
EmptyFile == [kind |-> "empty", doc |-> NoDoc, len |-> 0]

\* Payload with the mode tag of the first batch whatever the mode
Payload_core(pipeline_type, companies) == [pipeline |-> "core", companies |-> companies]

Payload(pipeline_type, companies) == [pipeline |-> pipeline_type, companies |-> companies]

ModeLen(m) == IF m = "core" THEN 4 ELSE IF m = "advanced" THEN 8 ELSE 10
DigitsLen(n) == IF n < 10 THEN 1 ELSE IF n < 100 THEN 2 ELSE 3
RecordLen(c) == 53 + Len(c.companyName) + Len(c.domain) + DigitsLen(c.accountOwner)
\* the records lo..hi with the ", " between them
RECURSIVE SumLen(_, _, _)
SumLen(companies, lo, hi) ==
    IF lo > hi THEN 0
    ELSE IF lo = hi THEN RecordLen(companies[lo])
    ELSE SumLen(companies, lo, (lo + hi) \div 2) + 2
         + SumLen(companies, ((lo + hi) \div 2) + 1, hi)
\* length of json.dump(payload): the keys, quotes and separators are 33
\* characters around the mode and 53 around each record
JsonLen(doc) == 33 + ModeLen(doc.pipeline) + SumLen(doc.companies, 1, Len(doc.companies))

\* closing the file flushes the document at offset 0 of what the file holds
Flushed(old, doc) ==
    IF JsonLen(doc) >= old.len
    THEN [kind |-> "json", doc |-> doc, len |-> JsonLen(doc)]
    ELSE [kind |-> "torn", doc |-> doc, len |-> old.len]

(***************************************************************************)
(* main's batches (lines 90-92) and summary (lines 94-108).                *)
(***************************************************************************)
Min(a, b) == IF a < b THEN a ELSE b
Slice(s, n) == SubSeq(s, 1, Min(n, Len(s)))     \* s[:n]

\* Batch with the two caps exchanged
Batch_swapped(companies, m) ==
    IF m = "core" THEN companies
    ELSE IF m = "advanced" THEN Slice(companies, PowerhouseCap)
    ELSE Slice(companies, AdvancedCap)

Batch(companies, m) ==
    IF m = "core" THEN companies
    ELSE IF m = "advanced" THEN Slice(companies, AdvancedCap)
    ELSE Slice(companies, PowerhouseCap)

\* round(total_time/60, 1) in tenths of a minute, for total_time a whole
\* number of seconds below 240.  An exact half (3, 9, 15, ... seconds) goes
\* the way the binary value of total_time/60 lies; HalfUp lists the ones
\* that go up.
HalfUp == {3, 27, 33, 39, 45, 63, 81, 93, 105, 111, 141, 147, 165, 171, 177, 201, 207, 225, 231, 237}
RoundMinutes(t) ==
    (t \div 6) + (IF t % 6 > 3 \/ (t % 6 = 3 /\ t \in HalfUp) THEN 1 ELSE 0)

(***************************************************************************)
(* State.  The file system and the clock are shared; everything else is    *)
(* the state of one running instance of the program.                       *)
(***************************************************************************)
VARIABLES
    env,            \* the environment of the behaviour: [menu, tick, runs]
    inputFile,      \* per instance: inputs/all-1233-companies.csv in its directory
    limit,          \* the `limit` argument of a direct call of load_companies
    tmp,            \* /tmp/<mode>_payload.json, per mode
    csv,            \* <output_dir>/<mode>-pipeline-results.csv, per mode
    summary,        \* <output_dir>/summary.json
    now,            \* time.time()
    pc,             \* per instance: where it is in main
    k,              \* per instance: index in Modes of the current batch
    all_companies,  \* per instance: main's all_companies
    total_start,    \* per instance: main's total_start
    start_time,     \* per instance: run_single_pipeline's start_time
    elapsed,        \* per instance: run_single_pipeline's elapsed
    result,         \* per instance and mode: what curl gave back in this run
    ret,            \* per instance and mode: what run_single_pipeline returned
    posted,         \* per instance: the POSTs of this run, [mode, body], in order
    dumps,          \* per instance and mode: json.dump calls of this run
    raised,         \* per instance: the exception that ended the run, or ""
    runs            \* per instance: runs finished before the current one

vars == <<env, inputFile, limit, tmp, csv, summary, now, pc, k, all_companies,
          total_start, start_time, elapsed, result, ret, posted, dumps, raised, runs>>

Inst == {1, 2}
ModeSet == {Modes[i] : i \in 1..Len(Modes)}
mode(self) == Modes[k[self]]

NoResult == Response(-1, "none", <<>>)
NoReturn == [returned |-> FALSE, results |-> <<>>, elapsed |-> 0]
NoSummary == [present |-> FALSE, core |-> 0, advanced |-> 0, powerhouse |-> 0,
              total_time_minutes |-> 0]

Sites == <<S_https \o S_www \o S_example, <<"a", ".", "b">>, S_www \o <<"c">>>>
\* the i-th row of an input file of a whole run
RowAt(i) == [Website |-> Sites[(i % Len(Sites)) + 1], AccountOwner |-> i]
FileOf(n) == [exists |-> TRUE, rows |-> [i \in 1..n |-> RowAt(i)]]
MissingFile == [exists |-> FALSE, rows |-> <<>>]

\* the state of an instance at the start of a run
FreshRun(self) ==
    /\ k' = [k EXCEPT ![self] = 1]
    /\ all_companies' = [all_companies EXCEPT ![self] = <<>>]
    /\ total_start' = [total_start EXCEPT ![self] = 0]
    /\ start_time' = [start_time EXCEPT ![self] = 0]
    /\ elapsed' = [elapsed EXCEPT ![self] = 0]
    /\ result' = [result EXCEPT ![self] = [m \in ModeSet |-> NoResult]]
    /\ ret' = [ret EXCEPT ![self] = [m \in ModeSet |-> NoReturn]]
    /\ posted' = [posted EXCEPT ![self] = <<>>]
    /\ dumps' = [dumps EXCEPT ![self] = [m \in ModeSet |-> 0]]
    /\ raised' = [raised EXCEPT ![self] = ""]

\* Everything but env, inputFile, limit and pc, before any run
InitRest ==
    /\ tmp = [m \in ModeSet |-> AbsentFile]
    /\ csv = [m \in ModeSet |-> NoFile]
    /\ summary = NoSummary
    /\ now = 0
    /\ k = [i \in Inst |-> 1]
    /\ all_companies = [i \in Inst |-> <<>>]
    /\ total_start = [i \in Inst |-> 0]
    /\ start_time = [i \in Inst |-> 0]
    /\ elapsed = [i \in Inst |-> 0]
    /\ result = [i \in Inst |-> [m \in ModeSet |-> NoResult]]
    /\ ret = [i \in Inst |-> [m \in ModeSet |-> NoReturn]]
    /\ posted = [i \in Inst |-> <<>>]
    /\ dumps = [i \in Inst |-> [m \in ModeSet |-> 0]]
    /\ raised = [i \in Inst |-> ""]
    /\ runs = [i \in Inst |-> 0]

Env(menu, tick, nruns) == [menu |-> menu, tick |-> tick, runs |-> nruns]

(***************************************************************************)
(* main, lines 75-94: mkdir -p, load_companies with no limit, total_start. *)
(* A missing input file is an uncaught FileNotFoundError.                  *)
(***************************************************************************)
MainLoad(self) ==
    /\ pc[self] = "main"
    /\ IF inputFile[self].exists
       THEN /\ all_companies' = [all_companies EXCEPT
                                    ![self] = load_companies(inputFile[self].rows, NoLimit)]
            /\ total_start' = [total_start EXCEPT ![self] = now]
            /\ pc' = [pc EXCEPT ![self] = "open"]
            /\ UNCHANGED raised
       ELSE /\ raised' = [raised EXCEPT ![self] = "FileNotFoundError"]
            /\ pc' = [pc EXCEPT ![self] = "aborted"]
            /\ UNCHANGED <<all_companies, total_start>>
    /\ UNCHANGED <<elapsed, env, inputFile, limit, tmp, csv, summary, now, k, start_time,
                   result, ret, posted, dumps, runs>>

(***************************************************************************)
(* run_single_pipeline, lines 30-33: open(temp_file, 'w') truncates.       *)
(***************************************************************************)
OpenTemp(self) ==
    /\ pc[self] = "open"
    /\ tmp' = [tmp EXCEPT ![mode(self)] = EmptyFile]
    /\ pc' = [pc EXCEPT ![self] = "dump"]
    /\ UNCHANGED <<elapsed, env, inputFile, limit, csv, summary, now, k, all_companies,
                   total_start, start_time, result, ret, posted, dumps, raised, runs>>

(***************************************************************************)
(* Lines 34-37: json.dump and the close of the file, then start_time.      *)
(***************************************************************************)
DumpPayload(self) ==
    /\ pc[self] = "dump"
    /\ \E d \in 0..env.tick :
        /\ now' = now + d
        /\ start_time' = [start_time EXCEPT ![self] = now + d]
    /\ tmp' = [tmp EXCEPT ![mode(self)] =
                  Flushed(tmp[mode(self)],
                          Payload(mode(self), Batch(all_companies[self], mode(self))))]
    /\ dumps' = [dumps EXCEPT ![self][mode(self)] = @ + 1]
    /\ pc' = [pc EXCEPT ![self] = "curl"]
    /\ UNCHANGED <<elapsed, env, inputFile, limit, csv, summary, k, all_companies,
                   total_start, result, ret, posted, raised, runs>>

(***************************************************************************)
(* Lines 38-44: curl reads the temporary file and POSTs what it holds.     *)
(***************************************************************************)
CurlPost(self) ==
    /\ pc[self] = "curl"
    /\ posted' = [posted EXCEPT ![self] = Append(@, [mode |-> mode(self), body |-> tmp[mode(self)]])]
    /\ pc' = [pc EXCEPT ![self] = "wait"]
    /\ UNCHANGED <<elapsed, env, inputFile, limit, tmp, csv, summary, now, k, all_companies,
                   total_start, start_time, result, ret, dumps, raised, runs>>

(***************************************************************************)
(* Lines 44-46: curl exits with what the remote answered (or a failure);   *)
(* the time it took is part of elapsed.                                    *)
(***************************************************************************)
CurlReturn(self) ==
    /\ pc[self] = "wait"
    /\ \E r \in env.menu : result' = [result EXCEPT ![self][mode(self)] = r]
    /\ \E d \in 0..env.tick :
        /\ now' = now + d
        /\ elapsed' = [elapsed EXCEPT ![self] = now + d - start_time[self]]
    /\ pc' = [pc EXCEPT ![self] = "handle"]
    /\ UNCHANGED <<env, inputFile, limit, tmp, csv, summary, k, all_companies,
                   total_start, start_time, ret, posted, dumps, raised, runs>>

(***************************************************************************)
(* Lines 48-73, then the caller's next statement: the response is parsed,  *)
(* the tabular file is written when there are rows, and the call returns   *)
(* (results, elapsed) or raises.  An exception is caught nowhere in main,  *)
(* so it ends the run.                                                     *)
(***************************************************************************)
HandleResponse(self) ==
    /\ pc[self] = "handle"
    /\ \E d \in 0..env.tick : now' = now + d
    /\ LET o == Outcome(result[self][mode(self)])
       IN /\ csv' = [csv EXCEPT ![mode(self)] = CsvAfter(@, result[self][mode(self)])]
          /\ IF o.raise # ""
             THEN /\ raised' = [raised EXCEPT ![self] = o.raise]
                  /\ pc' = [pc EXCEPT ![self] = "aborted"]
                  /\ UNCHANGED <<ret, k>>
             ELSE /\ ret' = [ret EXCEPT ![self][mode(self)] =
                                [returned |-> TRUE, results |-> o.results,
                                 elapsed |-> elapsed[self]]]
                  /\ IF k[self] < Len(Modes)
                     THEN /\ k' = [k EXCEPT ![self] = @ + 1]
                          /\ pc' = [pc EXCEPT ![self] = "open"]
                     ELSE /\ pc' = [pc EXCEPT ![self] = "summary"]
                          /\ UNCHANGED k
                  /\ UNCHANGED raised
    /\ UNCHANGED <<env, inputFile, limit, tmp, summary, all_companies, total_start,
                   start_time, elapsed, result, posted, dumps, runs>>

(***************************************************************************)
(* main, lines 94-111: total_time and summary.json.                        *)
(***************************************************************************)
\* TotalTime as the sum of the elapsed times of the three calls
TotalTime_sum(self) ==
    ret[self]["core"].elapsed + ret[self]["advanced"].elapsed + ret[self]["powerhouse"].elapsed

TotalTime(self) == now - total_start[self]

Summary(self) ==
    [present |-> TRUE,
     core |-> Len(ret[self]["core"].results),
     advanced |-> Len(ret[self]["advanced"].results),
     powerhouse |-> Len(ret[self]["powerhouse"].results),
     total_time_minutes |-> RoundMinutes(TotalTime(self))]

WriteSummary(self) ==
    /\ pc[self] = "summary"
    /\ summary' = Summary(self)
    /\ pc' = [pc EXCEPT ![self] = "done"]
    /\ UNCHANGED <<env, inputFile, limit, tmp, csv, now, k, all_companies, total_start,
                   start_time, elapsed, result, ret, posted, dumps, raised, runs>>

(***************************************************************************)
(* The program is started again (lines 113-114) once a run has ended; the  *)
(* files of the earlier run are still there.                               *)
(***************************************************************************)
Rerun(self) ==
    /\ pc[self] \in {"done", "aborted"}
    /\ runs[self] + 1 < env.runs
    /\ runs' = [runs EXCEPT ![self] = @ + 1]
    /\ FreshRun(self)
    /\ pc' = [pc EXCEPT ![self] = "main"]
    /\ UNCHANGED <<env, inputFile, limit, tmp, csv, summary, now>>

(***************************************************************************)
(* A direct call load_companies(filename, limit), lines 10-24.             *)
(***************************************************************************)
LoadCall(self) ==
    /\ pc[self] = "call"
    /\ inputFile[self].exists
    /\ all_companies' = [all_companies EXCEPT
                            ![self] = load_companies(inputFile[self].rows, limit)]
    /\ pc' = [pc EXCEPT ![self] = "called"]
    /\ UNCHANGED <<env, inputFile, limit, tmp, csv, summary, now, k, total_start,
                   start_time, elapsed, result, ret, posted, dumps, raised, runs>>

(***************************************************************************)
(* Specifications.                                                         *)
(***************************************************************************)
Run(self) ==
    \/ MainLoad(self)
    \/ OpenTemp(self)
    \/ DumpPayload(self)
    \/ CurlPost(self)
    \/ CurlReturn(self)
    \/ HandleResponse(self)
    \/ WriteSummary(self)

Idle == [i \in Inst |-> "off"]
One == [Idle EXCEPT ![1] = "main"]
NoInput == [i \in Inst |-> MissingFile]

\* One run of one instance; the remote may answer anything of FullMenu.
Init ==
    /\ env = Env(FullMenu, 0, 1)
    /\ inputFile \in {[NoInput EXCEPT ![1] = f] :
                         f \in {MissingFile} \cup {FileOf(n) : n \in 0..MaxFileRows}}
    /\ limit = NoLimit
    /\ pc = One
    /\ InitRest
Next == \E self \in Inst : Run(self)
Spec == Init /\ [][Next]_vars

\* One run over input files of every size up to MaxRows.
InitBatch ==
    /\ env = Env(SmallMenu, 0, 1)
    /\ inputFile \in {[NoInput EXCEPT ![1] = FileOf(n)] : n \in 0..MaxRows}
    /\ limit = NoLimit
    /\ pc = One
    /\ InitRest
SpecBatch == InitBatch /\ [][Next]_vars

\* Up to MaxRuns runs, one after the other, against the same directories.
InitRerun ==
    /\ env = Env(SmallMenu, 0, MaxRuns)
    /\ inputFile = [NoInput EXCEPT ![1] = FileOf(1)]
    /\ limit = NoLimit
    /\ pc = One
    /\ InitRest
NextRerun == \E self \in Inst : Run(self) \/ Rerun(self)
SpecRerun == InitRerun /\ [][NextRerun]_vars

\* One run in which the timed steps take up to MaxTick seconds each.
InitTime ==
    /\ env = Env(SmallMenu, MaxTick, 1)
    /\ inputFile = [NoInput EXCEPT ![1] = FileOf(1)]
    /\ limit = NoLimit
    /\ pc = One
    /\ InitRest
SpecTime == InitTime /\ [][Next]_vars

\* One instance, or two at the same time on the same temporary paths and
\* output directory, each started in a directory with its own input file.
InitConc ==
    /\ env = Env(TinyMenu, 0, 1)
    /\ inputFile \in {[i \in Inst |-> FileOf(IF i = 1 THEN 1 ELSE n)] : n \in 1..2}
    /\ limit = NoLimit
    /\ pc \in {One, [i \in Inst |-> "main"]}
    /\ InitRest
SpecConc == InitConc /\ [][Next]_vars

\* load_companies called on its own, with and without a limit.
Tokens == {S_https, S_http, S_www, S_example, <<"a">>, <<" ", "b">>, <<".">>}
RECURSIVE Concat(_)
Concat(ss) == IF ss = <<>> THEN <<>> ELSE Head(ss) \o Concat(Tail(ss))
Websites == {Concat(ts) : ts \in SeqsUpTo(Tokens, MaxTokens)}
InputRows(sites) == {[i \in 1..Len(ws) |-> [Website |-> ws[i], AccountOwner |-> i]] :
                        ws \in SeqsUpTo(sites, MaxFileRows)}
InitLoad ==
    /\ env = Env({}, 0, 1)
    /\ \/ /\ inputFile \in {[NoInput EXCEPT ![1] = [exists |-> TRUE, rows |-> rs]] :
                               rs \in InputRows({Sites[i] : i \in 1..Len(Sites)})}
          /\ limit \in {NoLimit} \cup {Limit(n) : n \in 0..MaxLimit}
       \/ /\ inputFile \in {[NoInput EXCEPT ![1] = [exists |-> TRUE,
                               rows |-> <<[Website |-> w, AccountOwner |-> 1]>>]] :
                               w \in Websites}
          /\ limit = NoLimit
    /\ pc = [Idle EXCEPT ![1] = "call"]
    /\ InitRest
NextLoad == \E self \in Inst : LoadCall(self)
SpecLoad == InitLoad /\ [][NextLoad]_vars

(***************************************************************************)
(* Properties.                                                             *)
(***************************************************************************)
\* the batch of mode m of the current run has been handled: curl has given
\* its result and lines 48-73 have run on it
Handled(self, m) ==
    /\ result[self][m] # NoResult
    /\ ~(pc[self] = "handle" /\ mode(self) = m)

\* the response carries no `results` field: curl failed, the body is not
\* JSON, or it is JSON of any type without the field
LacksResults(r) ==
    \/ r.rc # 0
    \/ r.kind \in {"invalid", "number", "null", "bool", "string", "string_results",
                   "array", "array_results", "object"}

HasRows(r) == r.rc = 0 /\ r.kind = "results_list" /\ r.rows # <<>>

PostedModes(self) == [i \in 1..Len(posted[self]) |-> posted[self][i].mode]

\* C1: whatever failure a batch's remote call ends in (curl failure, a body
\* that is not JSON, a JSON body of any type without `results`), the call
\* returns the empty sequence for that batch and the run is not aborted by
\* it.
C1_FailureIsolated ==
    \A self \in Inst : \A m \in ModeSet :
        (Handled(self, m) /\ LacksResults(result[self][m]))
            => /\ ret[self][m].returned
               /\ ret[self][m].results = <<>>
               /\ raised[self] # "TypeError"

\* C2: a run whose loader succeeded and that has ended made exactly three
\* submissions, core then advanced then powerhouse, whatever their outcome;
\* at any time the submissions made are a prefix of that order.
C2_ThreeSubmissions ==
    \A self \in Inst :
        /\ PostedModes(self) = SubSeq(Modes, 1, Len(posted[self]))
        /\ (pc[self] \in {"done", "aborted"} /\ raised[self] # "FileNotFoundError")
              => PostedModes(self) = Modes

\* number of records the claim gives the batch of mode m for n loaded records
ClaimedBatchSize(m, n) ==
    IF m = "core" THEN n
    ELSE IF m = "advanced" THEN (IF n < 100 THEN n ELSE 100)
    ELSE (IF n < 10 THEN n ELSE 10)

\* C3: every batch submitted is the prefix of the loaded sequence of length
\* N for core, min(N, 100) for advanced and min(N, 10) for powerhouse, its
\* records being those of the first rows of the input, in row order.
C3_BatchIsPrefix ==
    \A self \in Inst : \A i \in 1..Len(posted[self]) :
        LET b == posted[self][i]
            n == ClaimedBatchSize(b.mode, Len(all_companies[self]))
        IN /\ b.body.kind = "json"
           /\ b.body.doc.pipeline = b.mode
           /\ b.body.doc.companies = SubSeq(all_companies[self], 1, n)
           /\ \A j \in 1..n :
                 b.body.doc.companies[j].accountOwner = inputFile[self].rows[j].AccountOwner

\* all three batches of a file longer than both caps have been submitted
C3_Witness ==
    /\ Len(all_companies[1]) > 100
    /\ Len(posted[1]) = 3
    /\ Len(posted[1][2].body.doc.companies) = 100
    /\ Len(posted[1][3].body.doc.companies) = 10

\* the cell the claim expects under column key for a row
ClaimedCell(row, key) ==
    IF \E i \in 1..Len(row) : row[i][1] = key
    THEN row[CHOOSE i \in 1..Len(row) : row[i][1] = key][2]
    ELSE ""
ClaimedHeader(rows) == [j \in 1..Len(rows[1]) |-> rows[1][j][1]]
ClaimedLine(row, header) == [j \in 1..Len(header) |-> ClaimedCell(row, header[j])]
\* the row has a key that is no column of the header
Extra(row, header) == \E i \in 1..Len(row) : \A j \in 1..Len(header) : header[j] # row[i][1]
\* the rows before the first one with an extra key (all of them if none has)
RowsBeforeExtra(rows, header) ==
    Cardinality({i \in 1..Len(rows) : \A j \in 1..i : ~Extra(rows[j], header)})

\* C4 as claimed: for a non-empty `results` the tabular file has one data
\* row per returned row, in order, under the keys of the first row, also
\* when later rows miss keys of the first row or have other keys.
C4_AllRowsWritten ==
    \A m \in ModeSet :
        (Handled(1, m) /\ HasRows(result[1][m]))
            => LET rows == result[1][m].rows
               IN /\ csv[m].present
                  /\ csv[m].header = ClaimedHeader(rows)
                  /\ csv[m].rows = [i \in 1..Len(rows) |-> ClaimedLine(rows[i], csv[m].header)]

\* C4 amended: the header is the first row's keys in order; the data rows
\* are the returned rows before the first row with a key outside the
\* header, in order, a missing key giving an empty cell; if there is such
\* a row the call raises ValueError and the run ends, otherwise the call
\* returns all the rows.
C4_RowsUpToExtraKey ==
    \A m \in ModeSet :
        (Handled(1, m) /\ HasRows(result[1][m]))
            => LET rows == result[1][m].rows
                   n == RowsBeforeExtra(rows, ClaimedHeader(rows))
               IN /\ csv[m].present
                  /\ csv[m].header = ClaimedHeader(rows)
                  /\ csv[m].rows = [i \in 1..n |-> ClaimedLine(rows[i], csv[m].header)]
                  /\ n < Len(rows) => (pc[1] = "aborted" /\ raised[1] = "ValueError"
                                        /\ ~ret[1][m].returned)
                  /\ n = Len(rows) => (ret[1][m].returned /\ ret[1][m].results = rows)

\* one batch wrote all its rows with an empty cell for a missing key, and a
\* later batch stopped at a row with an extra key
C4_Witness ==
    /\ result[1]["core"].rows = <<Row_ba, Row_a>>
    /\ csv["core"].rows = << <<"v1", "v2">>, <<"", "v3">> >>
    /\ result[1]["advanced"].rows = <<Row_a, Row_ac>>
    /\ csv["advanced"].present
    /\ Len(csv["advanced"].rows) = 1
    /\ raised[1] = "ValueError"

SummaryCount(m) ==
    IF m = "core" THEN summary.core
    ELSE IF m = "advanced" THEN summary.advanced
    ELSE summary.powerhouse

\* C5: a batch whose remote call gives zero results (an empty `results` or
\* any failure) writes no tabular file and returns, so that the run goes on
\* to the next mode, and the summary of the run records 0 for the mode; the summary's count of every mode is the
\* length of what was returned for it.
C5_ZeroResults ==
    \A m \in ModeSet :
        /\ (Handled(1, m) /\ ~HasRows(result[1][m]))
              => /\ ~csv[m].present
                 /\ ret[1][m].returned /\ ret[1][m].results = <<>>
                 /\ pc[1] = "done" => (summary.present /\ SummaryCount(m) = 0)
        /\ pc[1] = "done" => (summary.present /\ SummaryCount(m) = Len(ret[1][m].results))

\* C6 as claimed: after a run has ended, a tabular file is present only if
\* the batch of its mode returned at least one row in that run.
C6_OnlyLatestRun ==
    \A m \in ModeSet :
        (pc[1] \in {"done", "aborted"} /\ csv[m].present) => HasRows(result[1][m])

\* C6 amended: the file is absent before the first run, a step changes it
\* only by handling a batch of its mode that returned at least one row, and
\* no step removes it: it is present only if the batch returned rows in
\* the most recent run or in an earlier one.
C6_WrittenOnlyWithRows ==
    /\ \A m \in ModeSet : ~csv[m].present
    /\ [][\A m \in ModeSet :
            /\ csv[m].present => csv'[m].present
            /\ csv'[m] # csv[m] =>
                  \E self \in Inst : /\ pc[self] = "handle"
                                     /\ mode(self) = m
                                     /\ HasRows(result[self][m])
                                     /\ csv'[m].present]_vars

\* the second run has ended, its core batch returned no rows, and the file
\* of the first run is still there
C6_Witness ==
    /\ runs[1] = 1
    /\ pc[1] = "done"
    /\ Handled(1, "core")
    /\ ~HasRows(result[1]["core"])
    /\ csv["core"].present

SumElapsed(self) ==
    ret[self]["core"].elapsed + ret[self]["advanced"].elapsed + ret[self]["powerhouse"].elapsed

\* C7 as claimed: total_time_minutes is the sum of the three elapsed times,
\* divided by 60 and rounded to one decimal place.
C7_SumOfElapsed ==
    pc[1] = "done" => summary.total_time_minutes = RoundMinutes(SumElapsed(1))

\* C7 amended: total_time_minutes is the wall-clock time from the end of
\* loading to the return of the third batch, divided by 60 and rounded to
\* one decimal place; that time is at least the sum of the three elapsed
\* times.
C7_WallClock ==
    pc[1] = "done" =>
        /\ summary.total_time_minutes = RoundMinutes(now - total_start[1])
        /\ now - total_start[1] >= SumElapsed(1)
        /\ \A m \in ModeSet : ret[1][m].returned

\* a completed run whose total time exceeds the sum of the elapsed times and
\* rounds to another tenth of a minute
C7_Witness ==
    /\ pc[1] = "done"
    /\ SumElapsed(1) > 0
    /\ now - total_start[1] > SumElapsed(1)
    /\ summary.total_time_minutes # RoundMinutes(SumElapsed(1))

\* C8: load_companies gives the Records of the first min(R, L) rows for a
\* limit L >= 0 and of all R rows without a limit, in row order.
C8_Truncated ==
    pc[1] = "called" =>
        LET rows == inputFile[1].rows
            n == IF limit.given /\ limit.n < Len(rows) THEN limit.n ELSE Len(rows)
        IN all_companies[1] = [i \in 1..n |-> Record(rows[i])]

\* the companyName of the claim: a leading https:// or http:// removed, then
\* a leading www., the text before the first `.`, the first letter of each
\* whitespace-separated word capitalized
StripLeading(s, p) == IF StartsWith(s, p) THEN Drop(s, Len(p)) ELSE s
CapitalizeWords(s) ==
    [i \in 1..Len(s) |-> IF i = 1 \/ s[i - 1] = " " THEN ToUpper(s[i]) ELSE s[i]]
ClaimedName(w) ==
    LET a == IF StartsWith(w, S_https) THEN Drop(w, Len(S_https)) ELSE StripLeading(w, S_http)
    IN CapitalizeWords(FirstSegment(StripLeading(a, S_www), "."))

\* C9: the companyName of every loaded Record is the claimed derivation of
\* its Website, and https://www.Example.com/path gives Example.
C9_LeadingOnly ==
    pc[1] = "called" =>
        \A i \in 1..Len(all_companies[1]) :
            /\ all_companies[1][i].companyName = ClaimedName(inputFile[1].rows[i].Website)
            /\ inputFile[1].rows[i].Website = S_https \o S_www \o S_example
                  => all_companies[1][i].companyName = <<"E", "x", "a", "m", "p", "l", "e">>

\* the payload the claim expects instance self to POST for mode m
OwnPayload(self, m) ==
    [pipeline |-> m,
     companies |-> SubSeq(all_companies[self], 1,
                          ClaimedBatchSize(m, Len(all_companies[self])))]

\* C10: with one instance running, each mode's temporary file is written
\* once in a run and the body POSTed for a mode is the payload of the run's
\* own batch for that mode.
C10_OwnPayloadPosted ==
    pc[2] = "off" =>
        /\ \A m \in ModeSet : dumps[1][m] <= 1
        /\ \A i \in 1..Len(posted[1]) :
              /\ dumps[1][posted[1][i].mode] = 1
              /\ posted[1][i].body.kind = "json"
              /\ posted[1][i].body.doc = OwnPayload(1, posted[1][i].mode)

\* C10, second part: with two instances running, one has POSTed for a mode
\* the payload the other one wrote, and its run went on to the end
C10_Witness ==
    /\ pc[2] # "off"
    /\ pc[1] = "done"
    /\ \E i \in 1..Len(posted[1]) :
          /\ posted[1][i].body.kind = "json"
          /\ posted[1][i].body.doc = OwnPayload(2, posted[1][i].mode)
          /\ posted[1][i].body.doc # OwnPayload(1, posted[1][i].mode)

====
